---- MODULE Spec2Model ----
(***************************************************************************)
(* A model of stegochess/solver.py: the whitelist check, the extraction of  *)
(* piece placements from a FEN string, the conditional template engine,     *)
(* the predefined endgame catalogue and the protocol that runs the STRIPS   *)
(* planner and parses its output.                                           *)
(*                                                                          *)
(* Python str values are TLA+ strings; TLC evaluates Len, Head, Tail,       *)
(* SubSeq and \o on them, and the str methods the code uses are defined     *)
(* below from these. A Python list is a sequence, a dict a sequence of      *)
(* <<key, value>> pairs in insertion order.                                 *)
(***************************************************************************)
EXTENDS Integers, Sequences, FiniteSets, TLC

VARIABLES
    call,       \* the operation that ran last: [fn, arg, path]
    env,        \* what subprocess.run did in that operation
    files,      \* the file system: path -> [exists, content]
    printed,    \* what the operation printed, one string per print call
    events,     \* what the operation did to the outside world, in order
    raised,     \* the exception that left the operation, "" when none
    result,     \* the locals of the operation worth observing
    tpl,        \* the template handed to the template engine
    conds,      \* the conditions handed to eval_conditionals
    phs,        \* the placeholders handed to replace_placeholders
    rendered,   \* what the template engine returned
    square      \* a board square: the indices handed in, the letter and number derived

vars == <<call, env, files, printed, events, raised, result, tpl, conds, phs, rendered, square>>

(***************************************************************************)
(* Python str methods                                                       *)
(***************************************************************************)

\* s[i-1], as a string of length 1
Char(s, i) == SubSeq(s, i, i)

\* the characters str.strip() removes that a text-mode read can deliver
IsSpace(c) == c \in {" ", "\t", "\n"}

RECURSIVE lstrip(_)
lstrip(s) == IF Len(s) > 0 /\ IsSpace(Head(s)) THEN lstrip(Tail(s)) ELSE s

RECURSIVE rstrip(_)
rstrip(s) ==
    IF Len(s) > 0 /\ IsSpace(Char(s, Len(s)))
    THEN rstrip(SubSeq(s, 1, Len(s) - 1))
    ELSE s

\* str.strip()
strip(s) == rstrip(lstrip(s))

\* str.startswith(p)
startswith(s, p) == Len(s) >= Len(p) /\ SubSeq(s, 1, Len(p)) = p

\* str.find(p) + 1: the 1-based place of the first occurrence of p, 0 when none
find(s, p) ==
    LET hits == {i \in 1..(Len(s) - Len(p) + 1) : SubSeq(s, i, i + Len(p) - 1) = p}
    IN  IF hits = {} THEN 0 ELSE CHOOSE i \in hits : \A j \in hits : i <= j

\* p in s
contains(s, p) == find(s, p) # 0

\* str.split(sep), sep not empty
RECURSIVE split(_, _)
split(s, sep) ==
    LET i == find(s, sep)
    IN  IF i = 0
        THEN <<s>>
        ELSE <<SubSeq(s, 1, i - 1)>> \o split(SubSeq(s, i + Len(sep), Len(s)), sep)

\* str.splitlines(): text read in text mode has "\n" as its only line break;
\* a final line break opens no empty last line
RECURSIVE splitlines(_)
splitlines(s) ==
    LET i == find(s, "\n")
    IN  IF s = "" THEN <<>>
        ELSE IF i = 0 THEN <<s>>
        ELSE <<SubSeq(s, 1, i - 1)>> \o splitlines(SubSeq(s, i + 1, Len(s)))

\* sep.join(list)
RECURSIVE join(_, _)
join(sep, list) ==
    IF list = <<>> THEN ""
    ELSE IF Len(list) = 1 THEN list[1]
    ELSE list[1] \o sep \o join(sep, Tail(list))

\* str.replace(old, new, 1): the first occurrence only
replace_FirstOnly(s, old, new) ==
    LET i == find(s, old)
    IN  IF i = 0
        THEN s
        ELSE SubSeq(s, 1, i - 1) \o new \o SubSeq(s, i + Len(old), Len(s))

\* str.replace(old, new): every occurrence, left to right, not overlapping
RECURSIVE replace(_, _, _)
replace(s, old, new) ==
    LET i == find(s, old)
    IN  IF i = 0
        THEN s
        ELSE SubSeq(s, 1, i - 1) \o new \o replace(SubSeq(s, i + Len(old), Len(s)), old, new)

Digits == "0123456789"
LowerCase == "abcdefghijklmnopqrstuvwxyz"
UpperCase == "ABCDEFGHIJKLMNOPQRSTUVWXYZ"

\* the value of a decimal digit character
DigitValue(c) == find(Digits, c) - 1

\* str.isdigit(): not empty and every character a digit
isdigit(s) == Len(s) > 0 /\ \A i \in 1..Len(s) : contains(Digits, Char(s, i))

\* str.isupper() of one character
isupper(c) == contains(UpperCase, c)

\* int(s) of a string of digits
RECURSIVE int(_)
int(s) == IF s = "" THEN 0 ELSE 10 * int(SubSeq(s, 1, Len(s) - 1)) + DigitValue(Char(s, Len(s)))

\* str(n) of an integer
str(n) == ToString(n)

\* x in list
InList(x, list) == \E i \in 1..Len(list) : list[i] = x

\* list.index(x) of a member: the 0-based place of its first occurrence
index(list, x) == (CHOOSE i \in 1..Len(list) : list[i] = x /\ \A j \in 1..(i - 1) : list[j] # x) - 1

\* dict[key] = value: a new key goes last, a known key keeps its place
DictSet(d, k, v) ==
    IF \E i \in 1..Len(d) : d[i][1] = k
    THEN [i \in 1..Len(d) |-> IF d[i][1] = k THEN <<k, v>> ELSE d[i]]
    ELSE Append(d, <<k, v>>)

DictHas(d, k) == \E i \in 1..Len(d) : d[i][1] = k

\* dict.get(key, default)
DictGet(d, k, default) ==
    IF DictHas(d, k) THEN d[CHOOSE i \in 1..Len(d) : d[i][1] = k][2] ELSE default

\* str.upper() of one character
upper(c) == IF contains(LowerCase, c) THEN Char(UpperCase, find(LowerCase, c)) ELSE c

\* chr(ord('a') + n)
chr_from_a(n) == Char(LowerCase, n + 1)

\* f"{s:<width}": s padded with spaces on the right to the width
RECURSIVE ljust(_, _)
ljust(s, width) == IF Len(s) >= width THEN s ELSE ljust(s \o " ", width)

(***************************************************************************)
(* Module constants of solver.py                                            *)
(***************************************************************************)

TEMPLATE_WFF_PATH == "solver/endgame_template.wff"
TEMP_WFF_PATH == "solver/temp_endgame.wff"

VALID_FENS == <<
    "1k6/8/K1R5/8/8/8/8/2R5 w - - 0 1",
    "1k6/8/1KQ5/8/8/8/8/8 w - - 0 1",
    "6k1/8/5R1K/8/8/8/8/5R2 w - - 0 1",
    "7k/8/6K1/5R2/8/8/8/8 w - - 0 1",
    "8/2R5/8/8/8/1K6/8/k7 w - - 0 1",
    "7k/8/4Q1K1/8/8/8/8/8 w - - 0 1",
    "3Q4/8/k1K5/8/8/8/8/8 w - - 0 1",
    "4Q3/8/5K1k/8/8/8/8/8 w - - 0 1" >>

PIECE_MAP == << <<"Q", "queen">>, <<"R", "rook">> >>

SOLVER_CMD == <<"clisp", "solver/solve.lisp">>

PREDEFINED_ENDGAMES == <<
    "Byrd", "Jim-Bob", "Mr-NewVegas", "Marston",
    "AERO-X", "StegoMate", "Pim", "Tonniewhood" >>

\* the literals of call_strips_solver
DIAG_MARKER == "[STRIPS]"
BEGIN_PLAN == "===BEGIN_PLAN==="
END_PLAN == "===END_PLAN==="

(***************************************************************************)
(* The world an operation acts on: the file system, what was printed, what  *)
(* was done outside the process, the exception that ended the operation    *)
(* and the operation's locals.                                              *)
(***************************************************************************)

NoFile == [exists |-> FALSE, content |-> ""]
File(content) == [exists |-> TRUE, content |-> content]

\* what a function hands back: None, which every function of solver.py returns
\* by a bare return or by reaching its end, or a list of strings
PyNone == [none |-> TRUE, value |-> <<>>]
PyList(value) == [none |-> FALSE, value |-> value]

\* the truth value of what was handed back: None and the empty list are false
Truthy(v) == ~v.none /\ v.value # <<>>

\* the locals before an operation has set them
NoResult ==
    [placeholders |-> <<>>, conditions |-> <<>>, num_pieces |-> 0,
     plan |-> <<>>, start_parsing |-> FALSE, scanned |-> 0, listed |-> <<>>,
     returned |-> PyNone]

\* the world at the start of an operation: only the file system is kept
Fresh(fs) == [files |-> fs, printed |-> <<>>, events |-> <<>>, raised |-> "", result |-> NoResult]

Event(kind, arg, data) == [ev |-> kind, arg |-> arg, data |-> data]

\* print(text)
print(w, text) == [w EXCEPT !.printed = Append(@, text)]

(***************************************************************************)
(* eval_conditionals                                                        *)
(***************************************************************************)

\* line 62: the line opens a section
IsOpeningMarker(line) == startswith(strip(line), "[[") /\ contains(line, "--")

\* line 66: the line closes a section
IsClosingMarker(line) == strip(line) = "]]"

\* line 63: the tag an opening marker carries
MarkerCondition(line) == strip(split(strip(line), "--")[2])

\* the loop body with the test of the flag inverted: lines are kept while skipping
EvalLine_KeepsWhileSkipping(st, line, conditions) ==
    IF IsOpeningMarker(line)
    THEN [st EXCEPT !.skip_section = ~InList(MarkerCondition(line), conditions)]
    ELSE IF IsClosingMarker(line)
    THEN [st EXCEPT !.skip_section = FALSE]
    ELSE IF st.skip_section
    THEN [st EXCEPT !.output_lines = Append(@, line)]
    ELSE st

\* lines 62-71: the loop body; st = [skip_section, output_lines]
EvalLine(st, line, conditions) ==
    IF IsOpeningMarker(line)
    THEN [st EXCEPT !.skip_section = ~InList(MarkerCondition(line), conditions)]
    ELSE IF IsClosingMarker(line)
    THEN [st EXCEPT !.skip_section = FALSE]
    ELSE IF ~st.skip_section
    THEN [st EXCEPT !.output_lines = Append(@, line)]
    ELSE st

\* lines 59-71: the loop's state after the first k lines
RECURSIVE EvalLoop(_, _, _)
EvalLoop(lines, k, conditions) ==
    IF k = 0
    THEN [skip_section |-> FALSE, output_lines |-> <<>>]
    ELSE EvalLine(EvalLoop(lines, k - 1, conditions), lines[k], conditions)

eval_conditionals(template, conditions) ==
    LET lines == splitlines(template)
    IN  join("\n", EvalLoop(lines, Len(lines), conditions).output_lines)

(***************************************************************************)
(* replace_placeholders                                                     *)
(***************************************************************************)

\* f"{{{{ {key} }}}}"
PlaceholderToken(key) == "{{ " \o key \o " }}"

\* lines 86-88: the dict's items in insertion order; the values are strings
RECURSIVE replace_placeholders(_, _)
replace_placeholders(template, placeholders) ==
    IF placeholders = <<>>
    THEN template
    ELSE replace_placeholders(
             replace(template, PlaceholderToken(placeholders[1][1]), placeholders[1][2]),
             Tail(placeholders))

(***************************************************************************)
(* generate_wff_file                                                        *)
(***************************************************************************)

\* a whitelist check on the placement field alone
IsValidFen_PlacementOnly(fen_string) ==
    \E i \in 1..Len(VALID_FENS) : split(VALID_FENS[i], " ")[1] = split(fen_string, " ")[1]

\* lines 98 and 152: fen_string in VALID_FENS
IsValidFen(fen_string) == InList(fen_string, VALID_FENS)

\* f"PIECE{num_pieces}_FILE" and its like
PieceKey(n, field) == "PIECE" \o str(n) \o field

\* the letter without the upper(): chr(ord('a') + file)
FileLetter_LowerCase(file) == chr_from_a(file)

\* chr(ord('a') + file).upper()
FileLetter(file) == upper(chr_from_a(file))

\* the rank counted from the top row: str(r + 1)
RankNumber_FromTop(r) == str(r + 1)

\* str(8 - r)
RankNumber(r) == str(8 - r)

\* the loop body that records the file of the black king and not its rank
ScanChar_NoBlackKingRank(st, char, r) ==
    IF isdigit(char)
    THEN [st EXCEPT !.file = @ + int(char)]
    ELSE IF isupper(char)
    THEN IF char = "K"
         THEN [st EXCEPT
                  !.placeholders = DictSet(DictSet(@, "WHITE_KING_FILE", FileLetter(st.file)),
                                           "WHITE_KING_RANK", RankNumber(r)),
                  !.file = @ + 1]
         ELSE LET n == st.num_pieces + 1
              IN  [placeholders |->
                       DictSet(DictSet(DictSet(st.placeholders,
                           PieceKey(n, "_FILE"), FileLetter(st.file)),
                           PieceKey(n, "_RANK"), RankNumber(r)),
                           PieceKey(n, "_TYPE"), DictGet(PIECE_MAP, upper(char), "unknown")),
                   num_pieces |-> n,
                   file |-> st.file + 1]
    ELSE [st EXCEPT
             !.placeholders = DictSet(@, "BLACK_KING_FILE", FileLetter(st.file)),
             !.file = @ + 1]

\* the loop body that moves the cursor by one file at a digit
ScanChar_DigitIsOneFile(st, char, r) ==
    IF isdigit(char)
    THEN [st EXCEPT !.file = @ + 1]
    ELSE IF isupper(char)
    THEN IF char = "K"
         THEN [st EXCEPT
                  !.placeholders = DictSet(DictSet(@, "WHITE_KING_FILE", FileLetter(st.file)),
                                           "WHITE_KING_RANK", RankNumber(r)),
                  !.file = @ + 1]
         ELSE LET n == st.num_pieces + 1
              IN  [placeholders |->
                       DictSet(DictSet(DictSet(st.placeholders,
                           PieceKey(n, "_FILE"), FileLetter(st.file)),
                           PieceKey(n, "_RANK"), RankNumber(r)),
                           PieceKey(n, "_TYPE"), DictGet(PIECE_MAP, upper(char), "unknown")),
                   num_pieces |-> n,
                   file |-> st.file + 1]
    ELSE [st EXCEPT
             !.placeholders = DictSet(DictSet(@, "BLACK_KING_FILE", FileLetter(st.file)),
                                      "BLACK_KING_RANK", RankNumber(r)),
             !.file = @ + 1]

\* lines 109-124: one character of row r; st = [placeholders, num_pieces, file]
ScanChar(st, char, r) ==
    IF isdigit(char)
    THEN [st EXCEPT !.file = @ + int(char)]
    ELSE IF isupper(char)
    THEN IF char = "K"
         THEN [st EXCEPT
                  !.placeholders = DictSet(DictSet(@, "WHITE_KING_FILE", FileLetter(st.file)),
                                           "WHITE_KING_RANK", RankNumber(r)),
                  !.file = @ + 1]
         ELSE LET n == st.num_pieces + 1
              IN  [placeholders |->
                       DictSet(DictSet(DictSet(st.placeholders,
                           PieceKey(n, "_FILE"), FileLetter(st.file)),
                           PieceKey(n, "_RANK"), RankNumber(r)),
                           PieceKey(n, "_TYPE"), DictGet(PIECE_MAP, upper(char), "unknown")),
                   num_pieces |-> n,
                   file |-> st.file + 1]
    ELSE [st EXCEPT
             !.placeholders = DictSet(DictSet(@, "BLACK_KING_FILE", FileLetter(st.file)),
                                      "BLACK_KING_RANK", RankNumber(r)),
             !.file = @ + 1]

\* lines 108-124: the inner loop's state after the first k characters of the row
RECURSIVE ScanRow(_, _, _, _)
ScanRow(st, row, r, k) ==
    IF k = 0 THEN st ELSE ScanChar(ScanRow(st, row, r, k - 1), Char(row, k), r)

\* lines 106-124: the outer loop's state after the first k rows
RECURSIVE ScanRows(_, _)
ScanRows(rows, k) ==
    IF k = 0
    THEN [placeholders |-> <<>>, num_pieces |-> 0, file |-> 0]
    ELSE ScanRow([ScanRows(rows, k - 1) EXCEPT !.file = 0], rows[k], k - 1, Len(rows[k]))

\* the extraction with the two-piece tag set for every position
ExtractPlacement_TwoPieceAlways(fen_string) ==
    LET rows == split(split(fen_string, " ")[1], "/")
        st == ScanRows(rows, Len(rows))
        placeholders ==
            IF st.num_pieces = 1
            THEN DictSet(DictSet(st.placeholders, "PIECE2_TYPE", "NIL"), "PIECE2_COLOR", "NIL")
            ELSE DictSet(st.placeholders, "PIECE2_COLOR", "white")
        conditions ==
            <<"TWO_PIECE">>
            \o (IF DictGet(placeholders, "PIECE1_TYPE", "None") = "queen" THEN <<"QUEEN">> ELSE <<>>)
    IN  [placeholders |-> placeholders, conditions |-> conditions, num_pieces |-> st.num_pieces]

\* the extraction with the queen tag taken from the type of piece 2
ExtractPlacement_QueenFromSecondary(fen_string) ==
    LET rows == split(split(fen_string, " ")[1], "/")
        st == ScanRows(rows, Len(rows))
        placeholders ==
            IF st.num_pieces = 1
            THEN DictSet(DictSet(st.placeholders, "PIECE2_TYPE", "NIL"), "PIECE2_COLOR", "NIL")
            ELSE DictSet(st.placeholders, "PIECE2_COLOR", "white")
        conditions ==
            (IF st.num_pieces = 1 THEN <<>> ELSE <<"TWO_PIECE">>)
            \o (IF DictGet(placeholders, "PIECE2_TYPE", "None") = "queen" THEN <<"QUEEN">> ELSE <<>>)
    IN  [placeholders |-> placeholders, conditions |-> conditions, num_pieces |-> st.num_pieces]

\* lines 102-134: the placeholders and the conditions of a position
ExtractPlacement(fen_string) ==
    LET rows == split(split(fen_string, " ")[1], "/")
        st == ScanRows(rows, Len(rows))
        placeholders ==
            IF st.num_pieces = 1
            THEN DictSet(DictSet(st.placeholders, "PIECE2_TYPE", "NIL"), "PIECE2_COLOR", "NIL")
            ELSE DictSet(st.placeholders, "PIECE2_COLOR", "white")
        conditions ==
            (IF st.num_pieces = 1 THEN <<>> ELSE <<"TWO_PIECE">>)
            \o (IF DictGet(placeholders, "PIECE1_TYPE", "None") = "queen" THEN <<"QUEEN">> ELSE <<>>)
    IN  [placeholders |-> placeholders, conditions |-> conditions, num_pieces |-> st.num_pieces]

\* the file at a path; the model keeps no record of the pre-authored endgame files
FileAt(fs, path) == IF path \in DOMAIN fs THEN fs[path] ELSE NoFile

\* the rendering with the output file opened for writing before the template is read
RenderToFile_OpensOutputFirst(w, x, output_path) ==
    LET opened == [p \in DOMAIN w.files \cup {output_path} |->
                      IF p = output_path THEN File("") ELSE w.files[p]]
    IN  IF ~FileAt(w.files, TEMPLATE_WFF_PATH).exists
        THEN [w EXCEPT !.files = opened, !.raised = "FileNotFoundError"]
        ELSE LET template == w.files[TEMPLATE_WFF_PATH].content
                 wff_content ==
                     replace_placeholders(eval_conditionals(template, x.conditions), x.placeholders)
             IN  [w EXCEPT
                     !.files = [opened EXCEPT ![output_path] = File(wff_content)],
                     !.events = @ \o <<Event("read", TEMPLATE_WFF_PATH, template),
                                       Event("write", output_path, wff_content)>>]

\* the rendering with the output file opened for appending
RenderToFile_Appends(w, x, output_path) ==
    IF ~FileAt(w.files, TEMPLATE_WFF_PATH).exists
    THEN [w EXCEPT !.raised = "FileNotFoundError"]
    ELSE LET template == w.files[TEMPLATE_WFF_PATH].content
             wff_content ==
                 replace_placeholders(eval_conditionals(template, x.conditions), x.placeholders)
             old == FileAt(w.files, output_path).content
         IN  [w EXCEPT
                 !.files = [p \in DOMAIN w.files \cup {output_path} |->
                               IF p = output_path THEN File(old \o wff_content) ELSE w.files[p]],
                 !.events = @ \o <<Event("read", TEMPLATE_WFF_PATH, template),
                                   Event("write", output_path, wff_content)>>]

\* lines 136-142: read the template, render it, write the result
RenderToFile(w, x, output_path) ==
    IF ~FileAt(w.files, TEMPLATE_WFF_PATH).exists
    THEN [w EXCEPT !.raised = "FileNotFoundError"]
    ELSE LET template == w.files[TEMPLATE_WFF_PATH].content
             wff_content ==
                 replace_placeholders(eval_conditionals(template, x.conditions), x.placeholders)
         IN  [w EXCEPT
                 !.files = [p \in DOMAIN w.files \cup {output_path} |->
                               IF p = output_path THEN File(wff_content) ELSE w.files[p]],
                 !.events = @ \o <<Event("read", TEMPLATE_WFF_PATH, template),
                                   Event("write", output_path, wff_content)>>]

generate_wff_file(w, fen_string, output_path) ==
    IF ~IsValidFen(fen_string)
    THEN print(w, "[ERROR] FEN string not in predefined valid endgames.")
    ELSE LET x == ExtractPlacement(fen_string)
         IN  RenderToFile(
                 [w EXCEPT !.result.placeholders = x.placeholders,
                           !.result.conditions = x.conditions,
                           !.result.num_pieces = x.num_pieces],
                 x, output_path)

(***************************************************************************)
(* call_strips_solver                                                       *)
(***************************************************************************)

\* the loop body storing a plan line as it is, untrimmed
ParseLine_Untrimmed(st, line) ==
    IF startswith(line, DIAG_MARKER)
    THEN [st EXCEPT !.printed = Append(@, line)]
    ELSE IF line = BEGIN_PLAN
    THEN [st EXCEPT !.start_parsing = TRUE]
    ELSE IF line = END_PLAN
    THEN [st EXCEPT !.start_parsing = FALSE]
    ELSE IF st.start_parsing
    THEN [st EXCEPT !.plan = Append(@, line)]
    ELSE st

\* the loop body testing for a diagnostic only outside the plan region
ParseLine_RegionFirst(st, line) ==
    IF line = BEGIN_PLAN
    THEN [st EXCEPT !.start_parsing = TRUE]
    ELSE IF line = END_PLAN
    THEN [st EXCEPT !.start_parsing = FALSE]
    ELSE IF st.start_parsing
    THEN [st EXCEPT !.plan = Append(@, strip(line))]
    ELSE IF startswith(line, DIAG_MARKER)
    THEN [st EXCEPT !.printed = Append(@, line)]
    ELSE st

\* the loop body comparing the trimmed line with the sentinels
ParseLine_TrimmedSentinels(st, line) ==
    IF startswith(line, DIAG_MARKER)
    THEN [st EXCEPT !.printed = Append(@, line)]
    ELSE IF strip(line) = BEGIN_PLAN
    THEN [st EXCEPT !.start_parsing = TRUE]
    ELSE IF strip(line) = END_PLAN
    THEN [st EXCEPT !.start_parsing = FALSE]
    ELSE IF st.start_parsing
    THEN [st EXCEPT !.plan = Append(@, strip(line))]
    ELSE st

\* the loop body that starts the plan afresh at every begin sentinel
ParseLine_BeginResetsPlan(st, line) ==
    IF startswith(line, DIAG_MARKER)
    THEN [st EXCEPT !.printed = Append(@, line)]
    ELSE IF line = BEGIN_PLAN
    THEN [st EXCEPT !.start_parsing = TRUE, !.plan = <<>>]
    ELSE IF line = END_PLAN
    THEN [st EXCEPT !.start_parsing = FALSE]
    ELSE IF st.start_parsing
    THEN [st EXCEPT !.plan = Append(@, strip(line))]
    ELSE st

\* lines 224-231: the loop body; st = [start_parsing, plan, printed]
ParseLine(st, line) ==
    IF startswith(line, DIAG_MARKER)
    THEN [st EXCEPT !.printed = Append(@, line)]
    ELSE IF line = BEGIN_PLAN
    THEN [st EXCEPT !.start_parsing = TRUE]
    ELSE IF line = END_PLAN
    THEN [st EXCEPT !.start_parsing = FALSE]
    ELSE IF st.start_parsing
    THEN [st EXCEPT !.plan = Append(@, strip(line))]
    ELSE st

\* the loop leaving out the last line of stdout
RECURSIVE ParseLoop_DropLast(_, _, _)
ParseLoop_DropLast(lines, k, printed0) ==
    IF k = 0
    THEN [start_parsing |-> FALSE, plan |-> <<>>, printed |-> printed0]
    ELSE IF k = Len(lines)
    THEN ParseLoop_DropLast(lines, k - 1, printed0)
    ELSE ParseLine(ParseLoop_DropLast(lines, k - 1, printed0), lines[k])

\* lines 221-231: the loop's state after the first k lines of stdout
RECURSIVE ParseLoop(_, _, _)
ParseLoop(lines, k, printed0) ==
    IF k = 0
    THEN [start_parsing |-> FALSE, plan |-> <<>>, printed |-> printed0]
    ELSE ParseLine(ParseLoop(lines, k - 1, printed0), lines[k])

\* the report treating an empty plan as a failure of the planner
ReportPlan_EmptyIsFailure(printed0, plan) ==
    IF plan # <<>>
    THEN printed0 \o <<"\n[SOLVER] Solution Plan:">> \o [i \in 1..Len(plan) |-> "  - " \o plan[i]]
    ELSE printed0 \o <<"[ERROR] STRIPS solver failed: ">>

\* lines 233-238: the report of the plan
ReportPlan(printed0, plan) ==
    IF plan # <<>>
    THEN printed0 \o <<"\n[SOLVER] Solution Plan:">> \o [i \in 1..Len(plan) |-> "  - " \o plan[i]]
    ELSE printed0 \o <<"\n[SOLVER] Solution Plan:", "No solution found">>

\* the failure test that knows exit code 1 only
SolverFailed_OnlyOne(returncode) == returncode = 1

\* line 217: the planner failed
SolverFailed(returncode) == returncode # 0

\* line 218: the report of a failed run
ReportFailure(stderr) == "[ERROR] STRIPS solver failed: " \o stderr

\* the invocation that launches the planner a second time after a failed run
call_strips_solver_RetriesOnce(w, endgame_wff_path, e) ==
    LET cmd == SOLVER_CMD \o <<endgame_wff_path>>
        launch == Event("launch", join(" ", cmd), FileAt(w.files, endgame_wff_path).content)
        w1 == [w EXCEPT !.events = Append(@, launch)]
    IN  IF e.oserror
        THEN [w1 EXCEPT !.raised = "OSError"]
        ELSE LET w2 == [w1 EXCEPT !.events = Append(@, Event("exit", str(e.returncode), ""))]
             IN  IF SolverFailed(e.returncode)
                 THEN print([w2 EXCEPT !.events = @ \o <<launch, Event("exit", str(e.returncode), "")>>],
                            ReportFailure(e.stderr))
                 ELSE LET lines == splitlines(e.stdout)
                          st == ParseLoop(lines, Len(lines), w2.printed)
                      IN  [w2 EXCEPT !.printed = ReportPlan(st.printed, st.plan),
                                     !.result.plan = st.plan,
                                     !.result.start_parsing = st.start_parsing,
                                     !.result.scanned = Len(lines)]

\* e is what subprocess.run does: it raises OSError (the planner cannot be started)
\* or returns [returncode, stdout, stderr]
call_strips_solver(w, endgame_wff_path, e) ==
    LET cmd == SOLVER_CMD \o <<endgame_wff_path>>
        w1 == [w EXCEPT !.events = Append(@, Event("launch", join(" ", cmd),
                                                   FileAt(w.files, endgame_wff_path).content))]
    IN  IF e.oserror
        THEN [w1 EXCEPT !.raised = "OSError"]
        ELSE LET w2 == [w1 EXCEPT !.events = Append(@, Event("exit", str(e.returncode), ""))]
             IN  IF SolverFailed(e.returncode)
                 THEN print(w2, ReportFailure(e.stderr))
                 ELSE LET lines == splitlines(e.stdout)
                          st == ParseLoop(lines, Len(lines), w2.printed)
                      IN  [w2 EXCEPT !.printed = ReportPlan(st.printed, st.plan),
                                     !.result.plan = st.plan,
                                     !.result.start_parsing = st.start_parsing,
                                     !.result.scanned = Len(lines)]

(***************************************************************************)
(* solve_from_fen, solve_predefined, list_predefined_endgames               *)
(***************************************************************************)

\* lines 159-160: remove the temporary file when it is there
RemoveTemp(w) ==
    IF FileAt(w.files, TEMP_WFF_PATH).exists
    THEN [w EXCEPT !.files[TEMP_WFF_PATH] = NoFile,
                   !.events = Append(@, Event("unlink", TEMP_WFF_PATH, ""))]
    ELSE w

\* the solve that compiles only when no input file is on disk
solve_from_fen_ReusesInputFile(w, fen_string, e) ==
    LET w0 == print(w, "[SOLVER] Solving endgame from FEN: " \o fen_string)
    IN  IF ~IsValidFen(fen_string)
        THEN print(w0, "[ERROR] FEN string not in predefined valid endgames.")
        ELSE LET w1 == IF FileAt(w0.files, TEMP_WFF_PATH).exists
                       THEN w0
                       ELSE generate_wff_file(w0, fen_string, TEMP_WFF_PATH)
             IN  IF w1.raised # ""
                 THEN w1
                 ELSE LET w2 == call_strips_solver(w1, TEMP_WFF_PATH, e)
                      IN  IF w2.raised # "" THEN w2 ELSE RemoveTemp(w2)

\* the solve that hands back the plan the planner gave
solve_from_fen_ReturnsPlan(w, fen_string, e) ==
    LET w0 == print(w, "[SOLVER] Solving endgame from FEN: " \o fen_string)
    IN  IF ~IsValidFen(fen_string)
        THEN print(w0, "[ERROR] FEN string not in predefined valid endgames.")
        ELSE LET w1 == generate_wff_file(w0, fen_string, TEMP_WFF_PATH)
             IN  IF w1.raised # ""
                 THEN w1
                 ELSE LET w2 == call_strips_solver(w1, TEMP_WFF_PATH, e)
                      IN  IF w2.raised # ""
                          THEN w2
                          ELSE [RemoveTemp(w2) EXCEPT !.result.returned = PyList(w2.result.plan)]

\* an exception leaves the function at the call that raised it
solve_from_fen(w, fen_string, e) ==
    LET w0 == print(w, "[SOLVER] Solving endgame from FEN: " \o fen_string)
    IN  IF ~IsValidFen(fen_string)
        THEN print(w0, "[ERROR] FEN string not in predefined valid endgames.")
        ELSE LET w1 == generate_wff_file(w0, fen_string, TEMP_WFF_PATH)
             IN  IF w1.raised # ""
                 THEN w1
                 ELSE LET w2 == call_strips_solver(w1, TEMP_WFF_PATH, e)
                      IN  IF w2.raised # "" THEN w2 ELSE RemoveTemp(w2)

\* line 186: the selector is neither a catalogue name nor a string of digits
IsUnknownEndgame(endgame_name) ==
    ~InList(endgame_name, PREDEFINED_ENDGAMES) /\ ~isdigit(endgame_name)

\* the number of a name taken as its 0-based place in the catalogue
EndgameNumber_ZeroBased(endgame_name) ==
    IF isdigit(endgame_name)
    THEN int(endgame_name)
    ELSE index(PREDEFINED_ENDGAMES, endgame_name)

\* lines 190-193
EndgameNumber(endgame_name) ==
    IF isdigit(endgame_name)
    THEN int(endgame_name)
    ELSE index(PREDEFINED_ENDGAMES, endgame_name) + 1

\* line 195: f"solver/predefined/endgame{endgame_number}.wff"
EndgamePath(endgame_number) == "solver/predefined/endgame" \o str(endgame_number) \o ".wff"

solve_predefined(w, endgame_name, e) ==
    LET w0 == print(w, "[SOLVER] Solving predefined: " \o endgame_name)
    IN  IF IsUnknownEndgame(endgame_name)
        THEN print(w0, "[ERROR] Invalid predefined endgame name or ID.")
        ELSE call_strips_solver(w0, EndgamePath(EndgameNumber(endgame_name)), e)

\* the line of the listing with the 0-based index shown as the ordinal
ListingLine_ZeroBased(idx) ==
    "  - " \o ljust(PREDEFINED_ENDGAMES[idx + 1], 11) \o " (" \o str(idx) \o ") => FEN: "
        \o VALID_FENS[idx + 1]

\* line 205: one line of the listing; idx is 0-based
ListingLine(idx) ==
    "  - " \o ljust(PREDEFINED_ENDGAMES[idx + 1], 11) \o " (" \o str(idx + 1) \o ") => FEN: "
        \o VALID_FENS[idx + 1]

list_predefined_endgames(w) ==
    [w EXCEPT
        !.printed = @ \o <<"\n[LIST] Available predefined endgames:">>
                      \o [i \in 1..Len(PREDEFINED_ENDGAMES) |-> ListingLine(i - 1)],
        !.result.listed = [i \in 1..Len(PREDEFINED_ENDGAMES) |->
                              <<PREDEFINED_ENDGAMES[i], i, VALID_FENS[i]>>]]

(***************************************************************************)
(* stegoSTRIPSus.py: the wrappers the menu calls                            *)
(***************************************************************************)

\* lines 57-61 and 85-89: the report of what the solver function handed back
ReportSolution(w) ==
    IF w.raised # ""
    THEN w
    ELSE IF Truthy(w.result.returned)
    THEN print(w, "Solution found: [" \o join(", ", w.result.returned.value) \o "]")
    ELSE print(w, "No solution found")

\* stegoSTRIPSus.py lines 53-61
solve_fen(w, fen_string, e) ==
    ReportSolution(
        solve_from_fen(print(w, "\n[SOLVE] Solving endgame from FEN: " \o fen_string),
                       fen_string, e))

\* stegoSTRIPSus.py lines 81-89: the wrapper solve_predefined
stegoSTRIPSus_solve_predefined(w, endgame_name, e) ==
    ReportSolution(
        solve_predefined(print(w, "\n[SOLVE] Running predefined endgame: " \o endgame_name),
                         endgame_name, e))

(***************************************************************************)
(* Inputs                                                                   *)
(***************************************************************************)

\* the longest planner output, in lines, and the longest template, in lines
MaxLines == 3
MaxTplLines == 3

\* position strings outside the whitelist: a whitelisted placement with black to
\* move, an endgame the whitelist lacks, a whitelisted string with a space before
\* it, the empty string
InvalidFens ==
    { "1k6/8/K1R5/8/8/8/8/2R5 b - - 0 1",
      "8/8/8/4k3/8/8/4K3/4R3 w - - 0 1",
      " 7k/8/6K1/5R2/8/8/8/8 w - - 0 1",
      "" }

FenInputs == {VALID_FENS[i] : i \in 1..Len(VALID_FENS)} \cup InvalidFens

\* selectors: the catalogue names, ordinals in and out of range, and misses
Selectors ==
    {PREDEFINED_ENDGAMES[i] : i \in 1..Len(PREDEFINED_ENDGAMES)}
    \cup {str(i) : i \in 0..10}
    \cup {"03", "00", "-1", "+1", "1a", " 3", "", "byrd", "BYRD", "aero-x", "Jim-bob",
          "Pim ", "PUSH", "StegoMat"}

\* the template asset solver/endgame_template.wff is not part of the sources: this
\* one has plain lines, placeholders of both kings and both pieces, and a section
\* for each condition the compiler computes
DefaultTemplate ==
    "(wk {{ WHITE_KING_FILE }}{{ WHITE_KING_RANK }})\n(p1 {{ PIECE1_TYPE }})\n(p2 {{ PIECE2_TYPE }} {{ PIECE2_FILE }})\n[[ --TWO_PIECE\n(two)\n]]\n[[ --QUEEN\n(queen)\n]]\n"

\* what subprocess.run can do
OsError == [oserror |-> TRUE, returncode |-> 0, stdout |-> "", stderr |-> ""]
Exit(returncode, stdout, stderr) ==
    [oserror |-> FALSE, returncode |-> returncode, stdout |-> stdout, stderr |-> stderr]
NoEnv == Exit(0, "", "")

\* the planner output of the protocol's example, with the marker the code uses
ExampleStdout == "[STRIPS] hello\n===BEGIN_PLAN===\nstep-1\nstep-2\n===END_PLAN===\n"

ReturnCodes == {0, 7, -9}
Stderrs == {"", "*** - EVAL: undefined function\n"}

\* two plan regions with a line between them
TwoRegions ==
    "===BEGIN_PLAN===\nstep-1\n===END_PLAN===\nnoise\n===BEGIN_PLAN===\n  step-2 \n===END_PLAN===\n"

\* an end sentinel before any region, a begin sentinel inside a region, two end
\* sentinels in a row, and a last region left open
RepeatedSentinels ==
    "===END_PLAN===\n===BEGIN_PLAN===\nstep-1\n===BEGIN_PLAN===\n  step-2 \n===END_PLAN===\n===END_PLAN===\nnoise\n===BEGIN_PLAN===\nstep-1"

\* the lines a planner output is made of
StdoutLines ==
    { "[STRIPS] hello", BEGIN_PLAN, END_PLAN, "step-1", "  step-2 ",
      " " \o BEGIN_PLAN, END_PLAN \o " ", " [STRIPS] x", "" }

SeqsUpTo(S, n) == UNION {[1..k -> S] : k \in 0..n}

Stdouts ==
    {join("\n", ls) \o tail : ls \in SeqsUpTo(StdoutLines, MaxLines), tail \in {"", "\n"}}
    \cup {ExampleStdout, TwoRegions, RepeatedSentinels}

\* the planner's behaviours a whole solve is run against
DriverEnvs ==
    { OsError,
      Exit(7, "===BEGIN_PLAN===\nstep-1\n", "*** - EVAL: undefined function\n"),
      Exit(0, ExampleStdout, "") }

\* the planner's behaviours the protocol alone is run against
SolverEnvs ==
    {OsError} \cup {Exit(rc, out, err) : rc \in ReturnCodes, out \in Stdouts, err \in Stderrs}

\* the lines a template is made of
TplLines ==
    { "[[ --A", "  [[ -- B  ", "]]", " ]] ", "x", "  y {{ K }}", "[[ z", "w -- [[" }

\* a section opened inside another one, closed once, and a line after it
NestedSections == "[[ --A\n  [[ -- B  \nx\n]]\nx"

\* a line and three line breaks: two empty lines after the line
TrailingBlankLines == "x\n\n\n"

TemplateDocs ==
    {join("\n", ls) : ls \in SeqsUpTo(TplLines, MaxTplLines)}
    \cup {NestedSections, TrailingBlankLines}

ConditionTuples == { <<>>, <<"A">>, <<"B">>, <<"A", "B">> }

PlaceholderDicts ==
    { <<>>, << <<"K", "A">> >>, << <<"K", "NIL">>, <<"M", "6">> >> }

(***************************************************************************)
(* The state machine: one action per operation                             *)
(***************************************************************************)

\* no square was handed in
NoSquare == [file |-> 0, r |-> 0, letter |-> "", rank |-> ""]

\* the state before any operation, but for the inputs a run is given
InitWorld ==
    /\ call = [fn |-> "", arg |-> "", path |-> ""]
    /\ files = [p \in {TEMPLATE_WFF_PATH, TEMP_WFF_PATH} |->
                   IF p = TEMPLATE_WFF_PATH THEN File(DefaultTemplate) ELSE NoFile]
    /\ printed = <<>>
    /\ events = <<>>
    /\ raised = ""
    /\ result = NoResult
    /\ conds = <<>>
    /\ phs = <<>>
    /\ rendered = ""

Init == InitWorld /\ env = NoEnv /\ tpl = "" /\ square = NoSquare

\* the world an operation leaves becomes the state
Becomes(w) ==
    /\ files' = w.files
    /\ printed' = w.printed
    /\ events' = w.events
    /\ raised' = w.raised
    /\ result' = w.result

Called(fn, arg, path) == call' = [fn |-> fn, arg |-> arg, path |-> path]

GenerateWffFile ==
    \E fen \in FenInputs :
        /\ Called("generate_wff_file", fen, TEMP_WFF_PATH)
        /\ env' = NoEnv
        /\ \E w \in {generate_wff_file(Fresh(files), fen, TEMP_WFF_PATH)} : Becomes(w)
        /\ UNCHANGED <<tpl, conds, phs, rendered, square>>

SolveFromFen ==
    \E fen \in FenInputs, e \in DriverEnvs :
        /\ Called("solve_from_fen", fen, "")
        /\ env' = e
        /\ \E w \in {solve_from_fen(Fresh(files), fen, e)} : Becomes(w)
        /\ UNCHANGED <<tpl, conds, phs, rendered, square>>

SolvePredefined ==
    \E name \in Selectors, e \in DriverEnvs \cup {Exit(0, "", "")} :
        /\ Called("solve_predefined", name, "")
        /\ env' = e
        /\ \E w \in {solve_predefined(Fresh(files), name, e)} : Becomes(w)
        /\ UNCHANGED <<tpl, conds, phs, rendered, square>>

ListPredefinedEndgames ==
    /\ Called("list_predefined_endgames", "", "")
    /\ env' = NoEnv
    /\ \E w \in {list_predefined_endgames(Fresh(files))} : Becomes(w)
    /\ UNCHANGED <<tpl, conds, phs, rendered, square>>

\* the environment: somebody removes the template asset, or puts it back
InstallTemplate ==
    /\ ~files[TEMPLATE_WFF_PATH].exists
    /\ Called("", "", "")
    /\ env' = NoEnv
    /\ Becomes(Fresh([files EXCEPT ![TEMPLATE_WFF_PATH] = File(DefaultTemplate)]))
    /\ UNCHANGED <<tpl, conds, phs, rendered, square>>

RemoveTemplate ==
    /\ files[TEMPLATE_WFF_PATH].exists
    /\ Called("", "", "")
    /\ env' = NoEnv
    /\ Becomes(Fresh([files EXCEPT ![TEMPLATE_WFF_PATH] = NoFile]))
    /\ UNCHANGED <<tpl, conds, phs, rendered, square>>

\* compiling and solving positions, in any order
Next ==
    \/ GenerateWffFile
    \/ SolveFromFen
    \/ InstallTemplate
    \/ RemoveTemplate

Spec == Init /\ [][Next]_vars

\* the catalogue: looking up and listing, in any order
NextRegistry == SolvePredefined \/ ListPredefinedEndgames

SpecRegistry == Init /\ [][NextRegistry]_vars

\* the solver protocol: one call against each behaviour of the planner
InitSolver == InitWorld /\ env \in SolverEnvs /\ tpl = "" /\ square = NoSquare

CallStripsSolver ==
    /\ call.fn = ""
    /\ Called("call_strips_solver", "", EndgamePath(1))
    /\ \E w \in {call_strips_solver(Fresh(files), EndgamePath(1), env)} : Becomes(w)
    /\ UNCHANGED <<env, tpl, conds, phs, rendered, square>>

NextSolver == CallStripsSolver

SpecSolver == InitSolver /\ [][NextSolver]_vars

\* the template engine: one call on each template
InitTemplate == InitWorld /\ env = NoEnv /\ tpl \in TemplateDocs /\ square = NoSquare

EvalConditionals ==
    \E c \in ConditionTuples :
        /\ call.fn = ""
        /\ Called("eval_conditionals", "", "")
        /\ conds' = c
        /\ rendered' = eval_conditionals(tpl, c)
        /\ UNCHANGED <<env, files, printed, events, raised, result, tpl, phs, square>>

ReplacePlaceholders ==
    \E d \in PlaceholderDicts :
        /\ call.fn = ""
        /\ Called("replace_placeholders", "", "")
        /\ phs' = d
        /\ rendered' = replace_placeholders(tpl, d)
        /\ UNCHANGED <<env, files, printed, events, raised, result, tpl, conds, square>>

NextTemplate == EvalConditionals \/ ReplacePlaceholders

SpecTemplate == InitTemplate /\ [][NextTemplate]_vars

\* the conversion of a file cursor and a row index into a square: each pair once
FileIndices == 0..7
RowIndices == 0..7

InitSquares ==
    /\ InitWorld /\ env = NoEnv /\ tpl = ""
    /\ square \in {[file |-> f, r |-> r, letter |-> "", rank |-> ""] :
                      f \in FileIndices, r \in RowIndices}

\* lines 114-115 (and 118-119, 122-123): the letter and the number of the square
ConvertSquare ==
    /\ call.fn = ""
    /\ Called("square", "", "")
    /\ square' = [square EXCEPT !.letter = FileLetter(square.file),
                                !.rank = RankNumber(square.r)]
    /\ UNCHANGED <<env, files, printed, events, raised, result, tpl, conds, phs, rendered>>

NextSquares == ConvertSquare

SpecSquares == InitSquares /\ [][NextSquares]_vars

\* a session: compiling, solving, looking up, listing and invoking, in any
\* order, on a few positions and selectors, with the template asset in place
SessionFens ==
    { "1k6/8/K1R5/8/8/8/8/2R5 w - - 0 1", "1k6/8/1KQ5/8/8/8/8/8 w - - 0 1",
      "7k/8/6K1/5R2/8/8/8/8 w - - 0 1", "7k/8/4Q1K1/8/8/8/8/8 w - - 0 1",
      "1k6/8/K1R5/8/8/8/8/2R5 b - - 0 1", "" }

SessionSelectors == {"Byrd", "3", "9", "StegoMat"}

SessionCompile ==
    \E fen \in SessionFens :
        /\ Called("generate_wff_file", fen, TEMP_WFF_PATH)
        /\ env' = NoEnv
        /\ \E w \in {generate_wff_file(Fresh(files), fen, TEMP_WFF_PATH)} : Becomes(w)
        /\ UNCHANGED <<tpl, conds, phs, rendered, square>>

SessionSolve ==
    \E fen \in SessionFens, e \in DriverEnvs :
        /\ Called("solve_from_fen", fen, "")
        /\ env' = e
        /\ \E w \in {solve_from_fen(Fresh(files), fen, e)} : Becomes(w)
        /\ UNCHANGED <<tpl, conds, phs, rendered, square>>

SessionLookup ==
    \E name \in SessionSelectors, e \in DriverEnvs :
        /\ Called("solve_predefined", name, "")
        /\ env' = e
        /\ \E w \in {solve_predefined(Fresh(files), name, e)} : Becomes(w)
        /\ UNCHANGED <<tpl, conds, phs, rendered, square>>

SessionInvoke ==
    \E e \in DriverEnvs :
        /\ Called("call_strips_solver", "", EndgamePath(1))
        /\ env' = e
        /\ \E w \in {call_strips_solver(Fresh(files), EndgamePath(1), e)} : Becomes(w)
        /\ UNCHANGED <<tpl, conds, phs, rendered, square>>

NextSession ==
    \/ SessionCompile
    \/ SessionSolve
    \/ SessionLookup
    \/ ListPredefinedEndgames
    \/ SessionInvoke

SpecSession == Init /\ [][NextSession]_vars

\* the menu: solving positions and predefined endgames through the wrappers
CliSelectors == SessionSelectors \cup {"AERO-X", "aero-x", "0", ""}

SolveFen ==
    \E fen \in SessionFens, e \in DriverEnvs :
        /\ Called("solve_fen", fen, "")
        /\ env' = e
        /\ \E w \in {solve_fen(Fresh(files), fen, e)} : Becomes(w)
        /\ UNCHANGED <<tpl, conds, phs, rendered, square>>

MenuSolvePredefined ==
    \E name \in CliSelectors, e \in DriverEnvs :
        /\ Called("stegoSTRIPSus.solve_predefined", name, "")
        /\ env' = e
        /\ \E w \in {stegoSTRIPSus_solve_predefined(Fresh(files), name, e)} : Becomes(w)
        /\ UNCHANGED <<tpl, conds, phs, rendered, square>>

NextCli == SolveFen \/ MenuSolvePredefined

SpecCli == Init /\ [][NextCli]_vars

(***************************************************************************)
(* Claims                                                                   *)
(***************************************************************************)

\* the lines of the planner output the last operation was given
StdoutLinesOf == splitlines(env.stdout)

\* call_strips_solver ran and the planner exited with the code
SolverExited == call.fn = "call_strips_solver" /\ ~env.oserror

IsDiagnostic(line) == startswith(line, DIAG_MARKER)

IsSentinel(line) == line \in {BEGIN_PLAN, END_PLAN}

\* line k lies after a begin sentinel with no end sentinel between the two
InPlanRegion(lines, k) ==
    \E b \in 1..(k - 1) :
        /\ lines[b] = BEGIN_PLAN
        /\ \A j \in (b + 1)..(k - 1) : lines[j] # END_PLAN

\* the members of a finite set of numbers, in increasing order
RECURSIVE Ordered(_)
Ordered(S) ==
    IF S = {} THEN <<>>
    ELSE LET least == CHOOSE x \in S : \A y \in S : x <= y
         IN  <<least>> \o Ordered(S \ {least})

\* the members of a sequence at the places in S, in order
At(seq, S) == [j \in 1..Cardinality(S) |-> seq[Ordered(S)[j]]]

\* the diagnostic lines among the lines, in order
Diagnostics(lines) == At(lines, {k \in 1..Len(lines) : IsDiagnostic(lines[k])})

\* the plan the protocol defines for the lines: the trimmed lines of the region
\* that are neither sentinels nor diagnostics, in order
RegionContent(lines) ==
    LET content == {k \in 1..Len(lines) :
                        /\ InPlanRegion(lines, k)
                        /\ ~IsSentinel(lines[k])
                        /\ ~IsDiagnostic(lines[k])}
        stored == At(lines, content)
    IN  [j \in 1..Len(stored) |-> strip(stored[j])]

\* C1: for a position string outside the whitelist, generate_wff_file and
\* solve_from_fen leave the file system as it was, read no template, write no
\* file, launch no planner and raise nothing.
C1_RejectedPositionHasNoEffect ==
    [][ ( /\ call'.fn \in {"generate_wff_file", "solve_from_fen"}
          /\ ~InList(call'.arg, VALID_FENS) )
        => ( /\ files' = files
             /\ events' = <<>>
             /\ raised' = ""
             /\ printed'[Len(printed')] = "[ERROR] FEN string not in predefined valid endgames." )
      ]_vars

\* a rejected solve_from_fen ran while an earlier temporary file was on disk
C1_Witness ==
    /\ call.fn = "solve_from_fen"
    /\ call.arg = "1k6/8/K1R5/8/8/8/8/2R5 b - - 0 1"
    /\ files[TEMP_WFF_PATH].exists
    /\ events = <<>>

\* C2: after exit code 0 the plan is exactly the trimmed lines of the plan region
\* that are neither sentinels nor diagnostics, in order; every plan step and
\* nothing else but the diagnostics and the heading is reported; the example
\* output gives the plan step-1, step-2.
C2_PlanIsRegionContent ==
    (SolverExited /\ env.returncode = 0) =>
        LET lines == StdoutLinesOf
            plan == RegionContent(lines)
            diagnostics == Diagnostics(lines)
        IN  /\ result.plan = plan
            /\ Len(printed) = Len(diagnostics) + 1 + (IF plan = <<>> THEN 1 ELSE Len(plan))
            /\ \A i \in 1..Len(plan) : printed[Len(diagnostics) + 1 + i] = "  - " \o plan[i]
            /\ (env.stdout = ExampleStdout => result.plan = <<"step-1", "step-2">>)

\* a plan was parsed from an output that also has a content line before the
\* region and a padded line inside it
C2_Witness ==
    /\ SolverExited
    /\ env.returncode = 0
    /\ StdoutLinesOf = <<"step-1", BEGIN_PLAN, "  step-2 ">>
    /\ result.plan = <<"step-2">>

\* C3: after a non-zero exit code the output is not scanned, the plan is empty,
\* no plan step is reported, and the one thing printed is the failure with the
\* captured stderr in it, unchanged.
C3_NonZeroExitIsHardFailure ==
    (SolverExited /\ env.returncode # 0) =>
        /\ result.scanned = 0
        /\ result.plan = <<>>
        /\ printed = <<"[ERROR] STRIPS solver failed: " \o env.stderr>>
        /\ raised = ""

\* the planner failed after it had written a whole plan region, with text on stderr
C3_Witness ==
    /\ SolverExited
    /\ env.returncode = 7
    /\ env.stdout = "===BEGIN_PLAN===\nstep-1\n===END_PLAN===\n"
    /\ env.stderr # ""
    /\ Len(printed) = 1

\* C4: after exit code 0, the lines that begin with the diagnostic marker are
\* printed as they are, in order, before anything else; and at each such line the
\* loop leaves the plan and the inside-the-region flag as they were, inside the
\* region as outside it.
C4_DiagnosticsAreNeverPlan ==
    (SolverExited /\ env.returncode = 0) =>
        LET lines == StdoutLinesOf
            diagnostics == Diagnostics(lines)
        IN  /\ SubSeq(printed, 1, Len(diagnostics)) = diagnostics
            /\ printed[Len(diagnostics) + 1] = "\n[SOLVER] Solution Plan:"
            /\ \A k \in 1..Len(lines) :
                   IsDiagnostic(lines[k]) =>
                       LET before == ParseLoop(lines, k - 1, <<>>)
                           after == ParseLoop(lines, k, <<>>)
                       IN  /\ after.plan = before.plan
                           /\ after.start_parsing = before.start_parsing
                           /\ after.printed = Append(before.printed, lines[k])

\* a diagnostic line came inside the plan region, between two plan lines
C4_Witness ==
    /\ SolverExited
    /\ env.returncode = 0
    /\ StdoutLinesOf = <<BEGIN_PLAN, "[STRIPS] hello", "step-1">>
    /\ result.plan = <<"step-1">>
    /\ result.start_parsing

\* C5: exit code 0 is a success whether or not a plan line was found: the heading
\* is printed and no failure is; with an empty plan the report ends with "No
\* solution found"; a non-zero exit prints the failure and no heading, so the two
\* outcomes are told apart by what is printed.
C5_ZeroExitIsSuccess ==
    SolverExited =>
        LET heading == "\n[SOLVER] Solution Plan:"
            failures == {i \in 1..Len(printed) : startswith(printed[i], "[ERROR]")}
        IN  /\ raised = ""
            /\ (env.returncode = 0) =>
                   /\ InList(heading, printed)
                   /\ failures = {}
                   /\ (result.plan = <<>>) <=> (printed[Len(printed)] = "No solution found")
            /\ (env.returncode # 0) =>
                   /\ ~InList(heading, printed)
                   /\ failures # {}

\* the planner exited with 0 and wrote an empty plan region
C5_Witness ==
    /\ SolverExited
    /\ env.returncode = 0
    /\ env.stdout = "===BEGIN_PLAN===\n===END_PLAN===\n"
    /\ result.plan = <<>>
    /\ printed = <<"\n[SOLVER] Solution Plan:", "No solution found">>

\* C6: when a begin sentinel has no end sentinel after it, the region is open at
\* the end of the output and the plan ends with the trimmed lines that follow that
\* sentinel, the last line of the output included, leaving out only diagnostics
\* and repeated begin sentinels; what was collected before is kept.
C6_OpenRegionRunsToTheEnd ==
    (SolverExited /\ env.returncode = 0) =>
        LET lines == StdoutLinesOf
            n == Len(lines)
        IN  \A b \in 1..n :
                (lines[b] = BEGIN_PLAN /\ \A j \in (b + 1)..n : lines[j] # END_PLAN) =>
                    LET after == {k \in (b + 1)..n :
                                      ~IsDiagnostic(lines[k]) /\ lines[k] # BEGIN_PLAN}
                        stored == At(lines, after)
                        following == [j \in 1..Len(stored) |-> strip(stored[j])]
                        collected == RegionContent(SubSeq(lines, 1, b))
                    IN  /\ result.start_parsing
                        /\ result.plan = collected \o following
                        /\ (n \in after => result.plan[Len(result.plan)] = strip(lines[n]))

\* the output ends, without a line break, inside a region that was never closed
C6_Witness ==
    /\ SolverExited
    /\ env.returncode = 0
    /\ env.stdout = "===BEGIN_PLAN===\nstep-1\n  step-2 "
    /\ result.plan = <<"step-1", "step-2">>
    /\ result.start_parsing

\* the decimal string of an ordinal 1..9
DecimalString(i) == Char(Digits, i + 1)

\* the selector is an ordinal of the catalogue written in decimal digits
IsCatalogueOrdinal(s) == isdigit(s) /\ int(s) \in 1..Len(PREDEFINED_ENDGAMES)

\* s with its letters in lower case
RECURSIVE LowerOf(_)
LowerOf(s) ==
    IF s = "" THEN ""
    ELSE (IF contains(UpperCase, Head(s)) THEN Char(LowerCase, find(UpperCase, Head(s))) ELSE Head(s))
         \o LowerOf(Tail(s))

\* the command line that runs the planner on the i-th pre-authored file
LaunchOfEndgame(i) ==
    "clisp solver/solve.lisp solver/predefined/endgame" \o DecimalString(i) \o ".wff"

\* C7: a selector that is neither a catalogue name nor an ordinal 1..8 (an unknown
\* name, a string that is no number, an ordinal above the catalogue, 0, -1) gets
\* the unknown-endgame error and the planner is not launched.
C7_UnknownSelectorIsRejected ==
    ( /\ call.fn = "solve_predefined"
      /\ ~InList(call.arg, PREDEFINED_ENDGAMES)
      /\ ~IsCatalogueOrdinal(call.arg) )
    => ( /\ events = <<>>
         /\ printed[Len(printed)] = "[ERROR] Invalid predefined endgame name or ID." )

\* C8: for each entry i of the catalogue, its exact name and the decimal string
\* of i both launch the planner on the i-th pre-authored file; a selector that
\* equals a name only after folding letter case launches nothing.
C8_NameAndOrdinalResolveAlike ==
    (call.fn = "solve_predefined") =>
        /\ \A i \in 1..Len(PREDEFINED_ENDGAMES) :
               (call.arg = PREDEFINED_ENDGAMES[i] \/ call.arg = DecimalString(i)) =>
                   /\ events # <<>>
                   /\ events[1].ev = "launch"
                   /\ events[1].arg = LaunchOfEndgame(i)
        /\ ( /\ ~InList(call.arg, PREDEFINED_ENDGAMES)
             /\ \E i \in 1..Len(PREDEFINED_ENDGAMES) :
                    LowerOf(call.arg) = LowerOf(PREDEFINED_ENDGAMES[i]) )
           => ( /\ events = <<>>
                /\ printed[Len(printed)] = "[ERROR] Invalid predefined endgame name or ID." )

\* the third name of the catalogue was looked up and the third file was run
C8_Witness ==
    /\ call.fn = "solve_predefined"
    /\ call.arg = "Mr-NewVegas"
    /\ events # <<>>
    /\ events[1] = Event("launch", LaunchOfEndgame(3), "")

\* C9: after solve_from_fen has ended for a whitelisted position, by returning or
\* by an exception, the temporary planner input file does not exist.
C9_TempFileIsRemoved ==
    (call.fn = "solve_from_fen" /\ InList(call.arg, VALID_FENS))
    => ~files[TEMP_WFF_PATH].exists

\* the lines of the template the engine was given
TemplateLinesOf == splitlines(tpl)

EvalRan == call.fn = "eval_conditionals"

IsMarkerLine(line) == IsOpeningMarker(line) \/ IsClosingMarker(line)

\* line k lies between the opening marker at m and the next closing marker
OpensOver(lines, m, k) ==
    /\ m < k
    /\ IsOpeningMarker(lines[m])
    /\ \A j \in (m + 1)..(k - 1) : ~IsClosingMarker(lines[j])
    /\ \E c \in (k + 1)..Len(lines) : IsClosingMarker(lines[c])

\* line k lies in no section: no opening marker before it is still unclosed
Outside(lines, k) ==
    \A m \in 1..(k - 1) :
        IsOpeningMarker(lines[m]) => \E j \in (m + 1)..(k - 1) : IsClosingMarker(lines[j])

\* the loop puts line k, as it is, at the end of the output
Emitted(lines, k, conditions) ==
    EvalLoop(lines, k, conditions).output_lines
        = Append(EvalLoop(lines, k - 1, conditions).output_lines, lines[k])

\* the loop adds nothing to the output at line k
Suppressed(lines, k, conditions) ==
    EvalLoop(lines, k, conditions).output_lines
        = EvalLoop(lines, k - 1, conditions).output_lines

\* C10: no marker line is emitted; a line between an opening marker and the
\* next closing marker is emitted as it is if the tag of that marker is in the
\* conditions and suppressed if not; a line in no section is emitted.
C10_OpeningMarkerTagDecides ==
    EvalRan =>
        LET lines == TemplateLinesOf
        IN  \A k \in 1..Len(lines) :
                IF IsMarkerLine(lines[k])
                THEN Suppressed(lines, k, conds)
                ELSE /\ \A m \in 1..Len(lines) :
                            OpensOver(lines, m, k) =>
                                IF InList(MarkerCondition(lines[m]), conds)
                                THEN Emitted(lines, k, conds)
                                ELSE Suppressed(lines, k, conds)
                     /\ Outside(lines, k) => Emitted(lines, k, conds)

\* C11: while a section whose tag is not in the conditions is being skipped,
\* every line up to the next closing marker is suppressed, an opening marker
\* and the lines after it included, whatever its tag; the first closing marker
\* ends the skip.
C11_SkipIgnoresInnerOpeningMarker ==
    EvalRan =>
        LET lines == TemplateLinesOf
        IN  \A m \in 1..Len(lines) :
                ( /\ IsOpeningMarker(lines[m])
                  /\ ~EvalLoop(lines, m - 1, conds).skip_section
                  /\ ~InList(MarkerCondition(lines[m]), conds) )
                => \A k \in (m + 1)..Len(lines) :
                       IF \A j \in (m + 1)..k : ~IsClosingMarker(lines[j])
                       THEN /\ Suppressed(lines, k, conds)
                            /\ EvalLoop(lines, k, conds).skip_section
                       ELSE (\A j \in (m + 1)..(k - 1) : ~IsClosingMarker(lines[j]))
                                => ~EvalLoop(lines, k, conds).skip_section

\* the template has no line that is an opening or a closing marker
HasNoMarkerLine(template) ==
    \A k \in 1..Len(splitlines(template)) : ~IsMarkerLine(splitlines(template)[k])

\* C12: for a template without marker lines the output of eval_conditionals is
\* the same for every set of conditions, and it is the lines of the template,
\* all of them, in their order.
C12_MarkerFreeTemplateIgnoresConditions ==
    (EvalRan /\ HasNoMarkerLine(tpl)) =>
        /\ rendered = join("\n", TemplateLinesOf)
        /\ \A c \in ConditionTuples : eval_conditionals(tpl, c) = rendered

\* a template of lines that only resemble markers went through with conditions
C12_Witness ==
    /\ EvalRan
    /\ tpl = "[[ z\nw -- [[\n  y {{ K }}"
    /\ conds = <<"A", "B">>
    /\ rendered = tpl

\* generate_wff_file ran on a whitelisted position
CompiledValid == call.fn = "generate_wff_file" /\ IsValidFen(call.arg)

\* the names the compiler can map, and with them the names a template refers to
PlaceholderNames ==
    { "WHITE_KING_FILE", "WHITE_KING_RANK", "BLACK_KING_FILE", "BLACK_KING_RANK",
      "PIECE1_FILE", "PIECE1_RANK", "PIECE1_TYPE",
      "PIECE2_FILE", "PIECE2_RANK", "PIECE2_TYPE", "PIECE2_COLOR" }

\* the text refers to the name by its bracketed token
Refers(text, name) == contains(text, PlaceholderToken(name))

\* the last operation wrote the file at the path
Wrote(path) == \E i \in 1..Len(events) : events[i].ev = "write" /\ events[i].arg = path

\* the last operation reported an error or ended by an exception
Failed == raised # "" \/ \E i \in 1..Len(printed) : startswith(printed[i], "[ERROR]")

\* C13: when the sections of the template that are emitted for a position refer
\* to a name the placeholder map has no entry for, the compiler fails and writes
\* no planner input file; when every name they refer to is mapped, it writes it.
C13_MissingPlaceholderFailsCompile ==
    (CompiledValid /\ files[TEMPLATE_WFF_PATH].exists) =>
        LET emitted == eval_conditionals(files[TEMPLATE_WFF_PATH].content, result.conditions)
            missing == {n \in PlaceholderNames :
                           Refers(emitted, n) /\ ~DictHas(result.placeholders, n)}
        IN  IF missing # {}
            THEN Failed /\ ~Wrote(call.path)
            ELSE ~Failed /\ Wrote(call.path)

ReplaceRan == call.fn = "replace_placeholders"

\* the number of places where p occurs in s
Occurrences(s, p) ==
    Cardinality({i \in 1..(Len(s) - Len(p) + 1) : SubSeq(s, i, i + Len(p) - 1) = p})

\* the text with the value put between the pieces the token of the name cuts it into
Substituted(text, name, value) == join(value, split(text, PlaceholderToken(name)))

\* the text after that was done for the entries of the map, one after the other
RECURSIVE SubstitutedAll(_, _)
SubstitutedAll(text, map) ==
    IF map = <<>> THEN text
    ELSE SubstitutedAll(Substituted(text, map[1][1], map[1][2]), Tail(map))

\* the names the templates and the maps of the engine's runs use
EngineNames == {"K", "M"}

\* C14: replace_placeholders ends without an error; in its output every
\* occurrence of the token of a name in the map has become the value of the
\* name, and the token of a name that is not in the map occurs as often as in
\* the template.
C14_MappedReplacedUnmappedKept ==
    ReplaceRan =>
        /\ raised = ""
        /\ rendered = SubstitutedAll(tpl, phs)
        /\ \A n \in EngineNames :
               IF DictHas(phs, n)
               THEN Occurrences(rendered, PlaceholderToken(n)) = 0
               ELSE Occurrences(rendered, PlaceholderToken(n)) = Occurrences(tpl, PlaceholderToken(n))

\* a template with the token of K twice went through a map that lacks K, and
\* both tokens are still there
C14_Witness ==
    /\ ReplaceRan
    /\ phs = <<>>
    /\ Occurrences(tpl, PlaceholderToken("K")) = 2
    /\ rendered = tpl

\* a template with the token of K twice went through a map with K, and both
\* tokens became the value
C14_WitnessMapped ==
    /\ ReplaceRan
    /\ phs = << <<"K", "NIL">>, <<"M", "6">> >>
    /\ tpl = "  y {{ K }}\nx\n  y {{ K }}"
    /\ rendered = "  y NIL\nx\n  y NIL"

\* the placement field of a position string
PlacementOf(fen) == split(fen, " ")[1]

\* the letters of the non-king white pieces of a position, in the order of the
\* placement field: rank 8 first, file a to h within a rank
NonKingLetters(fen) ==
    LET field == PlacementOf(fen)
        at == {i \in 1..Len(field) : isupper(Char(field, i)) /\ Char(field, i) # "K"}
    IN  [j \in 1..Cardinality(at) |-> Char(field, Ordered(at)[j])]

\* C15: after compiling a whitelisted position with exactly one non-king piece,
\* the placeholder map has the file, the rank and the type of piece 2, each
\* mapped to NIL.
C15_AbsentPieceIsNilEverywhere ==
    (CompiledValid /\ Len(NonKingLetters(call.arg)) = 1) =>
        \A field \in {"_FILE", "_RANK", "_TYPE"} :
            /\ DictHas(result.placeholders, PieceKey(2, field))
            /\ DictGet(result.placeholders, PieceKey(2, field), "") = "NIL"

\* C16: after compiling a whitelisted position, TWO_PIECE is among the
\* conditions if and only if the position has exactly two non-king pieces; with
\* exactly one it is not.
C16_TwoPieceTagIffTwoPieces ==
    CompiledValid =>
        /\ InList("TWO_PIECE", result.conditions) <=> Len(NonKingLetters(call.arg)) = 2
        /\ Len(NonKingLetters(call.arg)) = 1 => ~InList("TWO_PIECE", result.conditions)
        /\ result.num_pieces = Len(NonKingLetters(call.arg))

\* a position with two rooks was compiled and the tag is set
C16_Witness ==
    /\ CompiledValid
    /\ call.arg = "6k1/8/5R1K/8/8/8/8/5R2 w - - 0 1"
    /\ result.num_pieces = 2
    /\ InList("TWO_PIECE", result.conditions)

\* a position with one rook was compiled and the tag is not set
C16_WitnessOnePiece ==
    /\ CompiledValid
    /\ call.arg = "8/2R5/8/8/8/1K6/8/k7 w - - 0 1"
    /\ result.num_pieces = 1
    /\ ~InList("TWO_PIECE", result.conditions)

\* C17: after compiling a whitelisted position, QUEEN is among the conditions
\* if and only if the first non-king piece in scan order is a queen; the type
\* of the second piece has no part in it.
C17_QueenTagIffPrimaryQueen ==
    CompiledValid =>
        LET letters == NonKingLetters(call.arg)
        IN  /\ letters # <<>>
            /\ InList("QUEEN", result.conditions) <=> letters[1] = "Q"
            /\ InList("QUEEN", result.conditions)
                   <=> DictGet(result.placeholders, "PIECE1_TYPE", "") = "queen"

\* a position whose only piece is a queen was compiled and the tag is set
C17_Witness ==
    /\ CompiledValid
    /\ call.arg = "3Q4/8/k1K5/8/8/8/8/8 w - - 0 1"
    /\ result.conditions = <<"QUEEN">>

\* the value the placeholder map gives the name; "" when it has no entry
Mapped(name) == DictGet(result.placeholders, name, "")

\* the names of piece 2 that hold a value other than the absent marker
PopulatedSecondary ==
    {field \in {"_FILE", "_RANK", "_TYPE"} :
        DictHas(result.placeholders, PieceKey(2, field)) /\ Mapped(PieceKey(2, field)) # "NIL"}

\* C18: compiling the position with two rooks gives white king A6, black king
\* B8, piece 1 a rook on C6, piece 2 a rook on C1, TWO_PIECE and no QUEEN;
\* compiling the position with one queen gives white king G6, black king H8,
\* piece 1 a queen on E6, nothing populated for piece 2, QUEEN and no TWO_PIECE.
C18_ScenarioPositions ==
    /\ (CompiledValid /\ call.arg = "1k6/8/K1R5/8/8/8/8/2R5 w - - 0 1") =>
           /\ Mapped("WHITE_KING_FILE") = "A" /\ Mapped("WHITE_KING_RANK") = "6"
           /\ Mapped("BLACK_KING_FILE") = "B" /\ Mapped("BLACK_KING_RANK") = "8"
           /\ Mapped("PIECE1_TYPE") = "rook"
           /\ Mapped("PIECE1_FILE") = "C" /\ Mapped("PIECE1_RANK") = "6"
           /\ Mapped("PIECE2_TYPE") = "rook"
           /\ Mapped("PIECE2_FILE") = "C" /\ Mapped("PIECE2_RANK") = "1"
           /\ InList("TWO_PIECE", result.conditions)
           /\ ~InList("QUEEN", result.conditions)
    /\ (CompiledValid /\ call.arg = "7k/8/4Q1K1/8/8/8/8/8 w - - 0 1") =>
           /\ Mapped("WHITE_KING_FILE") = "G" /\ Mapped("WHITE_KING_RANK") = "6"
           /\ Mapped("BLACK_KING_FILE") = "H" /\ Mapped("BLACK_KING_RANK") = "8"
           /\ Mapped("PIECE1_TYPE") = "queen"
           /\ Mapped("PIECE1_FILE") = "E" /\ Mapped("PIECE1_RANK") = "6"
           /\ PopulatedSecondary = {}
           /\ result.num_pieces = 1
           /\ InList("QUEEN", result.conditions)
           /\ ~InList("TWO_PIECE", result.conditions)

\* the position with two rooks was compiled and both rooks are in the map
C18_Witness ==
    /\ CompiledValid
    /\ call.arg = "1k6/8/K1R5/8/8/8/8/2R5 w - - 0 1"
    /\ Mapped("PIECE1_RANK") = "6"
    /\ Mapped("PIECE2_RANK") = "1"

\* the position with one queen was compiled and the queen is piece 1
C18_WitnessQueen ==
    /\ CompiledValid
    /\ call.arg = "7k/8/4Q1K1/8/8/8/8/8 w - - 0 1"
    /\ Mapped("PIECE1_TYPE") = "queen"

Converted == call.fn = "square"

\* the re-encoding of a square: the offset of the letter from 'A', and the row
\* index counted from rank 8
FileIndexOf(letter) == find(UpperCase, letter) - 1
RowIndexOf(rank) == 8 - int(rank)

\* C19: the letter and the number derived from a file index and a row index in
\* 0..7 lie in A..H and 1..8, re-encode to the same two indices, and are
\* derived from no other pair of indices.
C19_SquareRoundTrips ==
    Converted =>
        /\ square.letter \in {"A", "B", "C", "D", "E", "F", "G", "H"}
        /\ square.rank \in {"1", "2", "3", "4", "5", "6", "7", "8"}
        /\ FileIndexOf(square.letter) = square.file
        /\ RowIndexOf(square.rank) = square.r
        /\ \A f \in FileIndices, r \in RowIndices :
               (FileLetter(f) = square.letter /\ RankNumber(r) = square.rank)
                   => (f = square.file /\ r = square.r)

\* the last file of the lowest row became H1
C19_Witness ==
    /\ Converted
    /\ square.file = 7 /\ square.r = 7
    /\ square.letter = "H" /\ square.rank = "1"

\* the names every whitelisted position must give a value
RequiredNames ==
    { "WHITE_KING_FILE", "WHITE_KING_RANK", "BLACK_KING_FILE", "BLACK_KING_RANK",
      "PIECE1_FILE", "PIECE1_RANK", "PIECE1_TYPE" }

\* the extraction of the last operation ended with a value for every required name
ExtractionTotal ==
    /\ \A n \in RequiredNames : DictHas(result.placeholders, n) /\ Mapped(n) # ""
    /\ result.num_pieces \in {1, 2}
    /\ raised \in {"", "FileNotFoundError"}

\* the eight cells of a row of the placement field, a digit standing for that
\* many empty cells
RECURSIVE CellsOfRow(_)
CellsOfRow(row) ==
    IF row = "" THEN <<>>
    ELSE LET c == SubSeq(row, 1, 1)
         IN  (IF isdigit(c) THEN [i \in 1..int(c) |-> "."] ELSE <<c>>)
             \o CellsOfRow(SubSeq(row, 2, Len(row)))

\* the board of a position as 64 cells, rank 8 first and file a to h in a rank
BoardOf(fen) ==
    LET rows == split(PlacementOf(fen), "/")
    IN  [n \in 1..64 |-> CellsOfRow(rows[((n - 1) \div 8) + 1])[((n - 1) % 8) + 1]]

\* the name of the square of cell n
LetterOfCell(n) == Char("ABCDEFGH", ((n - 1) % 8) + 1)
NumberOfCell(n) == str(8 - ((n - 1) \div 8))

\* what the board says about the names every position must give a value: the
\* squares of the two kings and the square and type of the first other piece
FactsOfBoard(fen) ==
    LET board == BoardOf(fen)
        wk == CHOOSE n \in 1..64 : board[n] = "K"
        bk == CHOOSE n \in 1..64 : board[n] = "k"
        others == {n \in 1..64 : board[n] \in {"Q", "R"}}
        p1 == CHOOSE n \in others : \A m \in others : n <= m
    IN  { <<"WHITE_KING_FILE", LetterOfCell(wk)>>, <<"WHITE_KING_RANK", NumberOfCell(wk)>>,
          <<"BLACK_KING_FILE", LetterOfCell(bk)>>, <<"BLACK_KING_RANK", NumberOfCell(bk)>>,
          <<"PIECE1_FILE", LetterOfCell(p1)>>, <<"PIECE1_RANK", NumberOfCell(p1)>>,
          <<"PIECE1_TYPE", IF board[p1] = "Q" THEN "queen" ELSE "rook">> }

\* C20: for a whitelisted position the extraction ends without an error of its
\* own, with file and rank of both kings and file, rank and type of piece 1 in
\* the map; the map and the conditions are a function of the position string
\* alone, the same in every run, whatever the state of the file system.
C20_ExtractionTotalAndDeterministic ==
    CompiledValid =>
        /\ ExtractionTotal
        /\ \A n \in RequiredNames : <<n, Mapped(n)>> \in FactsOfBoard(call.arg)
        /\ result.placeholders = ExtractPlacement(call.arg).placeholders
        /\ result.conditions = ExtractPlacement(call.arg).conditions

\* a position was compiled while the template was missing, after it had been
\* compiled once with the template in place: the extraction ran as before
C20_Witness ==
    /\ CompiledValid
    /\ call.arg = "4Q3/8/5K1k/8/8/8/8/8 w - - 0 1"
    /\ raised = "FileNotFoundError"
    /\ files[TEMP_WFF_PATH].exists
    /\ ExtractionTotal

\* the characters of the placement field of a position that are in the set
CharsIn(fen, S) ==
    {i \in 1..Len(PlacementOf(fen)) : Char(PlacementOf(fen), i) \in S}

\* the letters a..z and A..Z, one string each
LowerLetters == {Char(LowerCase, i) : i \in 1..Len(LowerCase)}
UpperLetters == {Char(UpperCase, i) : i \in 1..Len(UpperCase)}

\* the file cursor of the scan at the end of row k (k from 1) of the position
CursorAfterRow(fen, k) ==
    LET rows == split(PlacementOf(fen), "/")
    IN  ScanRow([placeholders |-> <<>>, num_pieces |-> 0, file |-> 0],
                rows[k], k - 1, Len(rows[k])).file

\* C21: a whitelisted position, when compiled, has 8 ranks with the file cursor
\* at 8 at the end of each, one white king, one black piece, the king, and one
\* or two other white pieces, each a queen or a rook by the type table.
C21_WhitelistIsWellFormed ==
    CompiledValid =>
        LET fen == call.arg
            rows == split(PlacementOf(fen), "/")
        IN  /\ Len(rows) = 8
            /\ \A k \in 1..Len(rows) : CursorAfterRow(fen, k) = 8
            /\ Cardinality(CharsIn(fen, {"K"})) = 1
            /\ Cardinality(CharsIn(fen, LowerLetters)) = 1
            /\ CharsIn(fen, LowerLetters) = CharsIn(fen, {"k"})
            /\ Cardinality(CharsIn(fen, UpperLetters \ {"K"})) \in {1, 2}
            /\ result.num_pieces = Cardinality(CharsIn(fen, UpperLetters \ {"K"}))
            /\ \A i \in CharsIn(fen, UpperLetters \ {"K"}) :
                   DictGet(PIECE_MAP, Char(PlacementOf(fen), i), "unknown") \in {"queen", "rook"}
            /\ \A n \in 1..result.num_pieces : Mapped(PieceKey(n, "_TYPE")) \in {"queen", "rook"}

\* the position with a rook on the seventh rank and the black king in the
\* corner of the first was compiled
C21_Witness ==
    /\ CompiledValid
    /\ call.arg = "8/2R5/8/8/8/1K6/8/k7 w - - 0 1"
    /\ CursorAfterRow(call.arg, 2) = 8
    /\ Mapped("BLACK_KING_FILE") = "A" /\ Mapped("BLACK_KING_RANK") = "1"
    /\ Mapped("PIECE1_TYPE") = "rook"

Listed == call.fn = "list_predefined_endgames"

\* what a line of the listing shows: the text before the ordinal without the
\* bullet and the padding, the text in the parentheses, the text after "FEN: "
ShownName(line) == strip(SubSeq(line, 5, find(line, " (") - 1))
ShownOrdinal(line) == SubSeq(line, find(line, " (") + 2, find(line, ") => FEN: ") - 1)
ShownPosition(line) == split(line, ") => FEN: ")[2]

\* C22: the catalogue and the whitelist have the same length, the display names
\* differ from one another, and the listing has, after its heading, one line
\* for each entry in catalogue order, showing the name, the ordinal 1..N and
\* the position stored at the same index.
C22_ListingIsTheCatalogue ==
    Listed =>
        LET N == Len(PREDEFINED_ENDGAMES)
        IN  /\ N = Len(VALID_FENS)
            /\ \A i, j \in 1..N : PREDEFINED_ENDGAMES[i] = PREDEFINED_ENDGAMES[j] => i = j
            /\ Len(printed) = N + 1
            /\ \A i \in 1..N :
                   /\ startswith(printed[i + 1], "  - ")
                   /\ ShownName(printed[i + 1]) = PREDEFINED_ENDGAMES[i]
                   /\ ShownOrdinal(printed[i + 1]) = DecimalString(i)
                   /\ ShownPosition(printed[i + 1]) = VALID_FENS[i]
            /\ raised = "" /\ events = <<>>

\* the listing ran; its sixth entry is StegoMate with the queen position
C22_Witness ==
    /\ Listed
    /\ printed[7] = "  - StegoMate   (6) => FEN: 7k/8/4Q1K1/8/8/8/8/8 w - - 0 1"

\* C23: a compile that fails, by a position outside the whitelist or by a
\* template that cannot be read, leaves the output path as it was, absent or
\* with its old content; a compile that writes does so once, after the template
\* was read, with a text in which the sections and the names every position
\* maps have been resolved.
C23_FailedCompileLeavesOutput ==
    [][ call'.fn = "generate_wff_file" =>
            IF ~IsValidFen(call'.arg) \/ raised' # ""
            THEN /\ files'[call'.path] = files[call'.path]
                 /\ \A i \in 1..Len(events') : events'[i].ev # "write"
            ELSE /\ Len(events') = 2
                 /\ events'[1].ev = "read" /\ events'[1].arg = TEMPLATE_WFF_PATH
                 /\ events'[2].ev = "write" /\ events'[2].arg = call'.path
                 /\ ~contains(events'[2].data, "[[") /\ ~contains(events'[2].data, "]]")
                 /\ \A n \in RequiredNames : ~Refers(events'[2].data, n)
                 /\ files'[call'.path] = File(events'[2].data) ]_vars

\* a compile failed on the missing template while the output of an earlier
\* compile was on disk, and that output is still there
C23_Witness ==
    /\ call.fn = "generate_wff_file"
    /\ call.arg = "7k/8/6K1/5R2/8/8/8/8 w - - 0 1"
    /\ raised = "FileNotFoundError"
    /\ events = <<>>
    /\ files[TEMP_WFF_PATH].exists
    /\ files[TEMP_WFF_PATH].content # ""

\* the places in the events of the last operation where the planner was launched
Launches == {i \in 1..Len(events) : events[i].ev = "launch"}

\* the last operation got as far as running the planner
ReachesPlanner ==
    \/ call.fn = "call_strips_solver"
    \/ call.fn = "solve_from_fen" /\ IsValidFen(call.arg)
    \/ call.fn = "solve_predefined" /\ ~IsUnknownEndgame(call.arg)

\* C24: an operation launches the planner once when it gets as far as running
\* it, and not at all otherwise; after the planner has exited, with a non-zero
\* code or with zero, the operation launches nothing.
C24_PlannerIsLaunchedOnce ==
    /\ Cardinality(Launches) = (IF ReachesPlanner THEN 1 ELSE 0)
    /\ \A i, j \in 1..Len(events) :
           (events[i].ev = "exit" /\ i < j) => events[j].ev # "launch"
    /\ (ReachesPlanner /\ ~env.oserror /\ env.returncode # 0) =>
           /\ \E i \in 1..Len(events) : events[i].ev = "exit" /\ events[i].arg = str(env.returncode)
           /\ printed[Len(printed)] = ReportFailure(env.stderr)

\* solve_from_fen ran on a whitelisted position and the planner exited with 7
C24_Witness ==
    /\ call.fn = "solve_from_fen"
    /\ IsValidFen(call.arg)
    /\ ~env.oserror /\ env.returncode = 7
    /\ Cardinality(Launches) = 1
    /\ events[Len(events)].ev = "unlink"

\* the file system before any operation: the template asset and nothing else
FilesAtStart ==
    [p \in {TEMPLATE_WFF_PATH, TEMP_WFF_PATH} |->
        IF p = TEMPLATE_WFF_PATH THEN File(DefaultTemplate) ELSE NoFile]

\* C25: after any sequence of compiling, solving, looking up, listing and
\* invoking, the template document is what it was at the start, and a compile
\* of a position has the map, the conditions, the rendered text and the output
\* it has when it is the first operation of all.
C25_OperationsShareNoState ==
    /\ files[TEMPLATE_WFF_PATH] = File(DefaultTemplate)
    /\ DOMAIN files = {TEMPLATE_WFF_PATH, TEMP_WFF_PATH}
    /\ CompiledValid =>
           LET first == generate_wff_file(Fresh(FilesAtStart), call.arg, call.path)
           IN  /\ result = first.result
               /\ files[call.path] = first.files[call.path]
               /\ events = first.events
               /\ printed = first.printed
               /\ raised = first.raised

\* the position with one queen was compiled, and the output is its rendering
C25_Witness ==
    /\ CompiledValid
    /\ call.arg = "7k/8/4Q1K1/8/8/8/8/8 w - - 0 1"
    /\ files[TEMP_WFF_PATH] = File("(wk G6)\n(p1 queen)\n(p2 NIL {{ PIECE2_FILE }})\n(queen)")

\* the line is a sentinel only once the whitespace around it is trimmed
IsPaddedSentinel(line) == IsSentinel(strip(line)) /\ ~IsSentinel(line)

\* the planner exited with 0, so that its output was scanned
Scanned == SolverExited /\ env.returncode = 0

\* C26: a line of stdout that equals a sentinel only after trimming leaves the
\* plan region as it is; outside the region the line is dropped, inside it the
\* trimmed line is added to the plan.
C26_PaddedSentinelIsNoSentinel ==
    Scanned =>
        LET lines == StdoutLinesOf
        IN  /\ result.plan = ParseLoop(lines, Len(lines), <<>>).plan
            /\ \A k \in 1..Len(lines) :
                   (IsPaddedSentinel(lines[k]) /\ ~IsDiagnostic(lines[k])) =>
                       LET before == ParseLoop(lines, k - 1, <<>>)
                           after == ParseLoop(lines, k, <<>>)
                       IN  /\ before.start_parsing = InPlanRegion(lines, k)
                           /\ after.start_parsing = before.start_parsing
                           /\ after.printed = before.printed
                           /\ after.plan = IF InPlanRegion(lines, k)
                                           THEN Append(before.plan, strip(lines[k]))
                                           ELSE before.plan

\* an end sentinel with a blank after it stood in the region: it became a step of
\* the plan and the step after it was still collected
C26_Witness ==
    /\ Scanned
    /\ env.stdout = "===BEGIN_PLAN===\n===END_PLAN=== \nstep-1"
    /\ result.plan = <<"===END_PLAN===", "step-1">>
    /\ result.start_parsing

SolvedValid == call.fn = "solve_from_fen" /\ IsValidFen(call.arg)

\* the steps of one solve, in their order
SolveSteps == <<"read", "write", "launch", "exit", "unlink">>

\* the rendering of a position: what a compile of it alone writes
RenderingOf(fen) ==
    generate_wff_file(Fresh(FilesAtStart), fen, TEMP_WFF_PATH).files[TEMP_WFF_PATH].content

\* C27: within a solve_from_fen call, whatever ran before it, the input file is
\* written, then the planner is launched, then it exits, then the file is
\* deleted, each once and in that order (the steps end at the launch when the
\* planner cannot be started); what is written, and what is in the file when
\* the planner is launched, is the rendering of the position of this call.
C27_SolveStepsInOrder ==
    /\ (call.fn = "solve_from_fen" /\ ~IsValidFen(call.arg)) => events = <<>>
    /\ SolvedValid =>
           /\ Len(events) = (IF env.oserror THEN 3 ELSE 5)
           /\ \A i \in 1..Len(events) : events[i].ev = SolveSteps[i]
           /\ events[2].arg = TEMP_WFF_PATH
           /\ events[2].data = RenderingOf(call.arg)
           /\ events[3].arg = "clisp solver/solve.lisp solver/temp_endgame.wff"
           /\ events[3].data = RenderingOf(call.arg)
           /\ ~env.oserror =>
                  /\ events[4].arg = str(env.returncode)
                  /\ events[5].arg = TEMP_WFF_PATH
                  /\ ~files[TEMP_WFF_PATH].exists

\* the position with two rooks was solved and the planner gave a plan; the
\* planner had read the rendering of that position
C27_Witness ==
    /\ SolvedValid
    /\ call.arg = "1k6/8/K1R5/8/8/8/8/2R5 w - - 0 1"
    /\ result.plan = <<"step-1", "step-2">>
    /\ Len(events) = 5
    /\ events[3].data = "(wk A6)\n(p1 rook)\n(p2 rook C)\n(two)"

\* the begin sentinels that open a region: those met while no region is open
RegionStarts(lines) ==
    {b \in 1..Len(lines) : lines[b] = BEGIN_PLAN /\ ~InPlanRegion(lines, b)}

\* the place of the end sentinel that closes the region opened at b, or the
\* place after the last line when the region stays open
RegionEnd(lines, b) ==
    LET ends == {e \in (b + 1)..Len(lines) : lines[e] = END_PLAN}
    IN  IF ends = {} THEN Len(lines) + 1 ELSE CHOOSE e \in ends : \A x \in ends : e <= x

\* the content lines of the region opened at b, trimmed
ContentOfRegion(lines, b) ==
    LET at == {k \in (b + 1)..(RegionEnd(lines, b) - 1) :
                  ~IsSentinel(lines[k]) /\ ~IsDiagnostic(lines[k])}
    IN  [j \in 1..Cardinality(at) |-> strip(At(lines, at)[j])]

\* the contents of the regions opened at the places of the sequence, one after the other
RECURSIVE ContentsInOrder(_, _)
ContentsInOrder(lines, starts) ==
    IF starts = <<>> THEN <<>>
    ELSE ContentOfRegion(lines, Head(starts)) \o ContentsInOrder(lines, Tail(starts))

\* C28: the plan is the content of all plan regions of stdout, region after
\* region in their order; a begin sentinel met in an open region and an end
\* sentinel met outside one leave the flag as it is and the plan as it is.
C28_RegionsAreConcatenated ==
    Scanned =>
        LET lines == StdoutLinesOf
        IN  /\ result.plan = ContentsInOrder(lines, Ordered(RegionStarts(lines)))
            /\ \A k \in 1..Len(lines) :
                   LET before == ParseLoop(lines, k - 1, <<>>)
                       after == ParseLoop(lines, k, <<>>)
                   IN  /\ (lines[k] = BEGIN_PLAN /\ InPlanRegion(lines, k)) =>
                              /\ before.start_parsing /\ after.start_parsing
                              /\ after.plan = before.plan
                       /\ (lines[k] = END_PLAN /\ ~InPlanRegion(lines, k)) =>
                              /\ ~before.start_parsing /\ ~after.start_parsing
                              /\ after.plan = before.plan

\* two regions with a line between them gave one plan of two steps
C28_Witness ==
    /\ Scanned
    /\ env.stdout = TwoRegions
    /\ Cardinality(RegionStarts(StdoutLinesOf)) = 2
    /\ result.plan = <<"step-1", "step-2">>

\* sentinels out of place changed nothing: three regions gave their steps in order
C28_WitnessRepeated ==
    /\ Scanned
    /\ env.stdout = RepeatedSentinels
    /\ result.plan = <<"step-1", "step-2", "step-1">>
    /\ result.start_parsing

\* the lines eval_conditionals collected for the template and the conditions
OutputLines(template, conditions) ==
    EvalLoop(splitlines(template), Len(splitlines(template)), conditions).output_lines

\* C29: the lines eval_conditionals returns are lines of the template that are
\* no markers, unchanged and in their order; none of them is a marker line; and
\* evaluating the returned text again, with any conditions, returns the same
\* sequence of lines.
C29_OutputIsStableSubsequence ==
    EvalRan =>
        LET lines == TemplateLinesOf
            out == OutputLines(tpl, conds)
        IN  /\ rendered = join("\n", out)
            /\ \E S \in SUBSET {k \in 1..Len(lines) : ~IsMarkerLine(lines[k])} :
                   out = At(lines, S)
            /\ \A i \in 1..Len(out) : ~IsMarkerLine(out[i])
            /\ \A c \in ConditionTuples :
                   splitlines(eval_conditionals(rendered, c)) = splitlines(rendered)

\* one of the two wrappers ran
WrapperRan == call.fn \in {"solve_fen", "stegoSTRIPSus.solve_predefined"}

\* the places in what was printed where a wrapper reports a solution
SolutionReports == {i \in 1..Len(printed) : startswith(printed[i], "Solution found")}

\* C30: the solver functions hand back nothing, also when a plan was parsed, so
\* a wrapper that ran to its end has printed 'No solution found' last and never
\* 'Solution found'.
C30_WrappersReportNoSolution ==
    /\ result.returned = PyNone
    /\ WrapperRan =>
           /\ SolutionReports = {}
           /\ raised = "" => printed[Len(printed)] = "No solution found"
           /\ raised # "" => \A i \in 1..Len(printed) : printed[i] # "No solution found"

\* the planner gave a plan of two steps for a whitelisted position, the steps
\* were printed, and the wrapper reported that there is no solution
C30_Witness ==
    /\ call.fn = "solve_fen"
    /\ result.plan = <<"step-1", "step-2">>
    /\ \E i \in 1..Len(printed) : printed[i] = "  - step-2"
    /\ printed[Len(printed)] = "No solution found"

\* the same through the wrapper of the predefined endgames
C30_WitnessPredefined ==
    /\ call.fn = "stegoSTRIPSus.solve_predefined"
    /\ call.arg = "AERO-X"
    /\ result.plan = <<"step-1", "step-2">>
    /\ printed[Len(printed)] = "No solution found"

====
